---- MODULE Spec2Model ----
(***************************************************************************)
(* Model of src/sepa_converter.py: the CSV -> pain.001.001.09 converter    *)
(* convert_csv_to_xml and the Streamlit script that calls it.  The file    *)
(* holds two variants of the converter (lines 14-120 and lines 142-242);   *)
(* `variant` says which one a session runs.                                *)
(*                                                                         *)
(* Text is a sequence of one-character strings.  A CSV row is a record     *)
(* [len, cells]: len is the number of cells of the row, cells gives the    *)
(* text of the columns the converter reads (UsedCols); a column at or      *)
(* beyond len does not exist and reading it raises IndexError.  Columns    *)
(* the converter never reads are empty in every modelled table.            *)
(***************************************************************************)
EXTENDS Integers, Sequences, FiniteSets, TLC

VARIABLES
    variant,    \* 1: convert_csv_to_xml of line 14, 2: the one of line 142
    uploaded,   \* the file held by st.file_uploader, or NoFile
    pc,         \* position of the script / of convert_csv_to_xml
    rows,       \* local `rows`: the non-blank rows
    hdr,        \* locals msgid, creation_date, debtor_name, debtor_iban, debtor_bic
    totals,     \* locals ctrl_sum and nb_tx
    root,       \* the element tree under construction
    idx,        \* number of payments the transaction loop has handled
    ret,        \* what convert_csv_to_xml returned (xml_bytes)
    error,      \* the exception that left convert_csv_to_xml, if any
    ui,         \* what the page shows
    runs,       \* script runs completed for the uploaded file
    prev        \* outcome of the previous script run on the uploaded file

vars == <<variant, uploaded, pc, rows, hdr, totals, root, idx, ret, error, ui, runs, prev>>

----------------------------------------------------------------------------
(* Bounds *)

MaxPayments == 2
MaxRuns == 2

----------------------------------------------------------------------------
(* Text helpers: str.strip, str.replace, str.split, str(int) *)

Digits == {"0", "1", "2", "3", "4", "5", "6", "7", "8", "9"}

DigitVal(c) ==
    CASE c = "0" -> 0 [] c = "1" -> 1 [] c = "2" -> 2 [] c = "3" -> 3
      [] c = "4" -> 4 [] c = "5" -> 5 [] c = "6" -> 6 [] c = "7" -> 7
      [] c = "8" -> 8 [] c = "9" -> 9

DigitChar(d) ==
    CASE d = 0 -> "0" [] d = 1 -> "1" [] d = 2 -> "2" [] d = 3 -> "3"
      [] d = 4 -> "4" [] d = 5 -> "5" [] d = 6 -> "6" [] d = 7 -> "7"
      [] d = 8 -> "8" [] d = 9 -> "9"

IsSpace(c) == c = " "

RECURSIVE LStrip(_)
LStrip(s) == IF s # <<>> /\ IsSpace(Head(s)) THEN LStrip(Tail(s)) ELSE s

RECURSIVE RStrip(_)
RStrip(s) ==
    IF s # <<>> /\ IsSpace(s[Len(s)]) THEN RStrip(SubSeq(s, 1, Len(s) - 1)) ELSE s

\* str.strip()
Strip(s) == RStrip(LStrip(s))

\* str.replace(a, b) for a one-character a and a text b
RECURSIVE Replace(_, _, _)
Replace(s, a, b) ==
    IF s = <<>> THEN <<>>
    ELSE (IF Head(s) = a THEN b ELSE <<Head(s)>>) \o Replace(Tail(s), a, b)

\* the trailing run of non-space characters of a text that ends in one
RECURSIVE TrailingWord(_)
TrailingWord(s) ==
    IF s = <<>> \/ IsSpace(s[Len(s)]) THEN <<>>
    ELSE TrailingWord(SubSeq(s, 1, Len(s) - 1)) \o <<s[Len(s)]>>

\* str.split()[-1]; the index raises IndexError when split() is empty
HasToken(s) == Strip(s) # <<>>
LastToken(s) == TrailingWord(RStrip(s))

\* str(n) for n >= 0
RECURSIVE IntToStr(_)
IntToStr(n) ==
    IF n < 10 THEN <<DigitChar(n)>> ELSE IntToStr(n \div 10) \o <<DigitChar(n % 10)>>

----------------------------------------------------------------------------
(* decimal.Decimal: a value is [c |-> coefficient, e |-> fraction digits]. *)
(* The modelled texts hold digits, '.', ',', ' ' and letters only, so the  *)
(* sign, exponent, underscore, Infinity and NaN forms do not occur.        *)

RECURSIVE Pow10(_)
Pow10(k) == IF k = 0 THEN 1 ELSE 10 * Pow10(k - 1)

RECURSIVE CountChar(_, _)
CountChar(s, c) ==
    IF s = <<>> THEN 0 ELSE (IF Head(s) = c THEN 1 ELSE 0) + CountChar(Tail(s), c)

RECURSIVE DigitsValue(_)
DigitsValue(s) ==
    IF s = <<>> THEN 0
    ELSE IF Head(s) = "." THEN DigitsValue(Tail(s))
    ELSE DigitVal(Head(s)) * Pow10(Len(Tail(s)) - CountChar(Tail(s), ".")) + DigitsValue(Tail(s))

RECURSIVE FractionDigits(_)
FractionDigits(s) ==
    IF s = <<>> THEN 0
    ELSE IF Head(s) = "." THEN Len(Tail(s))
    ELSE FractionDigits(Tail(s))

\* Decimal(s) accepts s: surrounding whitespace is ignored, then digits with
\* at most one '.', and at least one digit
DecimalValid(s) ==
    LET t == Strip(s) IN
    /\ \A i \in 1..Len(t) : t[i] \in Digits \cup {"."}
    /\ CountChar(t, ".") <= 1
    /\ Len(t) - CountChar(t, ".") >= 1

\* Decimal(s), for a text DecimalValid accepts
DecimalOf(s) ==
    LET t == Strip(s) IN [c |-> DigitsValue(t), e |-> FractionDigits(t)]

\* Decimal.__add__: exact, at the larger number of fraction digits
DecAdd(a, b) ==
    LET e == IF a.e >= b.e THEN a.e ELSE b.e IN
    [c |-> a.c * Pow10(e - a.e) + b.c * Pow10(e - b.e), e |-> e]

\* sum(amounts): starts from the int 0
RECURSIVE DecSum(_)
DecSum(ds) ==
    IF ds = <<>> THEN [c |-> 0, e |-> 0]
    ELSE DecAdd(DecSum(SubSeq(ds, 1, Len(ds) - 1)), ds[Len(ds)])

\* quantize to 2 fraction digits, ROUND_HALF_EVEN (the default context): cents
Cents(d) ==
    IF d.e <= 2 THEN d.c * Pow10(2 - d.e)
    ELSE LET k == Pow10(d.e - 2)
             q == d.c \div k
             r == d.c % k
             half == 5 * Pow10(d.e - 3)
         IN  IF r > half \/ (r = half /\ q % 2 = 1) THEN q + 1 ELSE q

\* f"{d:.2f}"
Format2F(d) ==
    LET n == Cents(d) IN
    IntToStr(n \div 100) \o <<".", DigitChar((n % 100) \div 10), DigitChar(n % 10)>>

----------------------------------------------------------------------------
(* CSV rows *)

\* the columns convert_csv_to_xml reads
UsedCols == {2, 3, 4, 5, 6, 10, 12, 13, 32, 34, 35, 36}

EmptyCells == [i \in UsedCols |-> <<>>]

\* a text of n characters 'x'
Long(n) == [i \in 1..n |-> "x"]

\* header rows
HeaderOk ==
    [len |-> 37,
     cells |-> [EmptyCells EXCEPT ![2] = <<"M", "1">>, ![3] = <<"G", "B", " ", "0", "0">>, ![4] = <<" ", "A", "c", "m", "e">>,
                                  ![10] = <<"B", "I", "C", " ">>, ![32] = <<"a", "t", " ", "2", "0", "2", "4", "-", "0", "1", "-", "0", "2">>]]
HeaderNoMsgId == [HeaderOk EXCEPT !.cells[2] = <<" ">>]
HeaderNoDate == [HeaderOk EXCEPT !.cells[32] = <<" ">>]
HeaderShort == [len |-> 20, cells |-> [HeaderOk.cells EXCEPT ![32] = <<>>]]

\* a row of blank cells: dropped by the filter of line 18 / 146
BlankRow == [len |-> 37, cells |-> [EmptyCells EXCEPT ![4] = <<" ">>]]

\* payment rows
PayBase ==
    [len |-> 37,
     cells |-> [EmptyCells EXCEPT ![2] = <<"i", "n", "v", " ", "1">>, ![4] = <<" ", "B", "o", "b">>, ![10] = <<"C", "B", "I", "C">>,
                                  ![12] = <<"E", "U", "R">>, ![13] = <<"1", ".", "5">>, ![35] = <<"D", "E", " ", "1", "2">>]]
PayComma ==
    [PayBase EXCEPT !.cells[13] = <<"1", "2", "3", "4", ",", "5", "6">>, !.cells[34] = <<" ", "E", "1", " ">>,
                    !.cells[5] = <<"a", " ">>, !.cells[6] = <<" ", "b">>]
PaySpaced == [PayBase EXCEPT !.cells[13] = <<"1", " ", "2", "3", "4", ".", "5", "6">>]
PayDot ==
    [PayBase EXCEPT !.cells[13] = <<"1", "2", "3", "4", ".", "5", "6">>, !.cells[34] = <<" ">>, !.cells[5] = <<"a">>,
                    !.cells[36] = <<" ", "R", "7">>]
PayLetters == [PayBase EXCEPT !.cells[13] = <<"a", "b", "c">>]
PayNoRef ==
    [PayBase EXCEPT !.cells[13] = <<"2", "5", ".", "5">>, !.cells[2] = <<" ">>, !.cells[5] = <<" ">>]
PayNoAmount == [PayBase EXCEPT !.cells[13] = <<>>]
PayNoIban ==
    [PayBase EXCEPT !.cells[13] = <<"0", ".", "1", "2", "5">>, !.cells[35] = <<>>, !.cells[6] = <<"b">>]
PayLong ==
    [PayBase EXCEPT !.cells[13] = <<"1", ".", "0", "0", "5">>, !.cells[4] = Long(71), !.cells[34] = Long(36)]
PayLen35 ==
    [len |-> 35, cells |-> [PayBase.cells EXCEPT ![13] = <<" ", "7">>, ![34] = <<"E", "9">>, ![35] = <<>>]]
PayLen13 == [len |-> 13, cells |-> [PayBase.cells EXCEPT ![13] = <<>>, ![35] = <<>>]]
PayLen36 == [len |-> 36, cells |-> [PayBase.cells EXCEPT ![13] = <<"2", ",", "5">>]]

HeaderSamples == {HeaderOk, HeaderNoMsgId, HeaderNoDate, HeaderShort, BlankRow}

PaymentSamples ==
    {PayComma, PaySpaced, PayDot, PayLetters, PayNoRef, PayNoAmount, PayNoIban,
     PayLong, PayLen35, PayLen13, PayLen36, BlankRow}

RECURSIVE SeqsUpTo(_, _)
SeqsUpTo(S, n) ==
    IF n = 0 THEN {<<>>}
    ELSE LET shorter == SeqsUpTo(S, n - 1) IN
         shorter \cup {Append(q, x) : q \in {p \in shorter : Len(p) = n - 1}, x \in S}

\* the tables a session may upload: nothing, or a first row and up to
\* MaxPayments further rows
Tables ==
    {<<>>} \cup {<<h>> \o ps : h \in HeaderSamples, ps \in SeqsUpTo(PaymentSamples, MaxPayments)}

\* the files a session may upload: a UTF-8 CSV of a table, or bytes that are
\* not UTF-8
Files ==
    {[present |-> TRUE, utf8 |-> TRUE, table |-> t] : t \in Tables}
        \cup {[present |-> TRUE, utf8 |-> FALSE, table |-> <<>>]}

NoFile == [present |-> FALSE, utf8 |-> TRUE, table |-> <<>>]

\* r[i]: the cell exists
HasCell(r, i) == i < r.len

\* any(cell.strip() for cell in row)
NonBlank(r) == \E i \in UsedCols : HasCell(r, i) /\ Strip(r.cells[i]) # <<>>

\* [row for row in reader if any(cell.strip() for cell in row)]
RECURSIVE NonBlankRows(_)
NonBlankRows(t) ==
    IF t = <<>> THEN <<>>
    ELSE (IF NonBlank(Head(t)) THEN <<Head(t)>> ELSE <<>>) \o NonBlankRows(Tail(t))

----------------------------------------------------------------------------
(* The locals of convert_csv_to_xml *)

\* payments = rows[1:]
Payments(rs) == IF rs = <<>> THEN <<>> ELSE Tail(rs)

\* line 19: `if len(rows) < 2` ; line 147: `if not rows`
ReturnsNone(v, rs) == IF v = 1 THEN Len(rs) < 2 ELSE rs = <<>>

\* lines 24-28 / 153-157 raise IndexError: header[32] does not exist (the
\* lower columns then exist or fail the same way), or header[32].split() is empty
HeaderRaises(h) == ~HasCell(h, 2) \/ ~HasCell(h, 32) \/ ~HasToken(h.cells[32])

\* a fault of MsgId: the message id taken from the clock, which has advanced
\* by the next run, instead of from the header
MsgIdFromClock(v, h) == <<"M", "S", "G">> \o IntToStr(runs)

\* line 24: header[2].strip() or 'MSG1' ; line 153: header[2] or 'MSG1'
MsgId(v, h) ==
    LET t == IF v = 1 THEN Strip(h.cells[2]) ELSE h.cells[2] IN
    IF t # <<>> THEN t ELSE <<"M", "S", "G", "1">>

\* lines 24-28 / 153-157
HeaderFields(v, h) ==
    [msgid |-> MsgId(v, h),
     creation_date |-> LastToken(h.cells[32]),
     debtor_name |-> IF v = 1 THEN Strip(h.cells[4]) ELSE h.cells[4],
     debtor_iban |-> Replace(h.cells[3], " ", <<>>),
     debtor_bic |-> IF v = 1 THEN Strip(h.cells[10]) ELSE h.cells[10]]

NoHeaderFields ==
    [msgid |-> <<>>, creation_date |-> <<>>, debtor_name |-> <<>>,
     debtor_iban |-> <<>>, debtor_bic |-> <<>>]

\* r[13].replace(',', '.')
AmountText(r) == Replace(r.cells[13], ",", <<".">>)

\* Decimal(r[13].replace(',', '.')) raises: IndexError when the row has no
\* column 13, decimal.InvalidOperation when the text is no number
AmountRaises(r) == ~HasCell(r, 13) \/ ~DecimalValid(AmountText(r))
AmountError(r) == IF ~HasCell(r, 13) THEN "IndexError" ELSE "InvalidOperation"

\* the 1-based position of the first payment whose amount raises, 0 if none
RECURSIVE FirstBadAmount(_, _)
FirstBadAmount(ps, k) ==
    IF k > Len(ps) THEN 0
    ELSE IF AmountRaises(ps[k]) THEN k
    ELSE FirstBadAmount(ps, k + 1)

\* line 31 / 160: amounts
Amounts(ps) == [k \in 1..Len(ps) |-> DecimalOf(AmountText(ps[k]))]

\* line 32 / 161: ctrl_sum = sum(amounts)
CtrlSum(ps) == DecSum(Amounts(ps))

\* a fault of NbTx: the header row counted with the payments (len(rows))
NbTxCountsHeader(ps) == Len(ps) + 1

\* line 33 / 162: nb_tx = len(payments)
NbTx(ps) == Len(ps)

NoTotals == [ctrl_sum |-> [c |-> 0, e |-> 0], nb_tx |-> 0]

----------------------------------------------------------------------------
(* The element tree *)

NoTree ==
    [tag |-> "", built |-> FALSE,
     GrpHdr |-> [MsgId |-> <<>>, CreDtTm |-> <<>>, NbOfTxs |-> <<>>, CtrlSum |-> <<>>,
                 InitgPtyNm |-> <<>>],
     PmtInf |-> [PmtInfId |-> <<>>, PmtMtd |-> "", BtchBookg |-> "", NbOfTxs |-> <<>>,
                 CtrlSum |-> <<>>, SvcLvlCd |-> "", ReqdExctnDt |-> <<>>, DbtrNm |-> <<>>,
                 DbtrIBAN |-> <<>>, DbtrBICFI |-> <<>>, ChrgBr |-> ""],
     CdtTrfTxInf |-> <<>>]

\* lines 36-77 / 165-199: the root, the group header, the payment
\* information and the debtor
Envelope(v, h, t) ==
    [tag |-> IF v = 1 THEN "CstmrCdtTrfInitn" ELSE "Document/CstmrCdtTrfInitn",
     built |-> TRUE,
     GrpHdr |-> [MsgId |-> h.msgid,
                 CreDtTm |-> h.creation_date \o <<"T", "0", "0", ":", "0", "0", ":", "0", "0">>,
                 NbOfTxs |-> IntToStr(t.nb_tx),
                 CtrlSum |-> Format2F(t.ctrl_sum),
                 InitgPtyNm |-> h.debtor_name],
     PmtInf |-> [PmtInfId |-> h.msgid, PmtMtd |-> "TRF", BtchBookg |-> "false",
                 NbOfTxs |-> IntToStr(t.nb_tx),
                 CtrlSum |-> Format2F(t.ctrl_sum),
                 SvcLvlCd |-> "SEPA",
                 ReqdExctnDt |-> h.creation_date,
                 DbtrNm |-> h.debtor_name,
                 DbtrIBAN |-> h.debtor_iban,
                 DbtrBICFI |-> h.debtor_bic,
                 ChrgBr |-> "SLEV"],
     CdtTrfTxInf |-> <<>>]

\* line 84 / 206
EndToEndId(r) ==
    IF r.len > 34 /\ Strip(r.cells[34]) # <<>> THEN Strip(r.cells[34])
    ELSE Strip(r.cells[2])

\* line 89 / 211
InstdAmt(r) == AmountText(r)

\* line 96: r[4].strip() ; line 218: r[4]
CdtrNm(v, r) == IF v = 1 THEN Strip(r.cells[4]) ELSE r.cells[4]

\* lines 98-99 / 220-221
Combined(r) ==
    LET addr1 == Strip(r.cells[5])
        addr2 == Strip(r.cells[6])
    IN  IF addr1 # <<>> /\ addr2 # <<>> THEN addr1 \o <<",", " ">> \o addr2
        ELSE IF addr1 # <<>> THEN addr1 ELSE addr2

\* lines 97-101 / 219-223: the PstlAdr element and its AdrLine children
PstlAdr(r) ==
    [present |-> TRUE,
     AdrLine |-> IF Combined(r) # <<>> THEN <<Combined(r)>> ELSE <<>>]

\* line 105 / 227
CdtrIBAN(r) == Replace(r.cells[35], " ", <<>>)

\* line 109 / 231
RefVal(r) ==
    IF r.len > 36 /\ Strip(r.cells[36]) # <<>> THEN Strip(r.cells[36]) ELSE <<"R", "y", "f", "t">>

\* line 105 / 227 raises IndexError: the row has no column 35
TxRaises(r) == ~HasCell(r, 35)

TxChildren == <<"PmtId", "Amt", "CdtrAgt", "Cdtr", "CdtrAcct", "RmtInf">>

\* lines 81-115 / 203-237: one CdtTrfTxInf
TxElement(v, r) ==
    [children |-> TxChildren,
     EndToEndId |-> EndToEndId(r),
     Ccy |-> r.cells[12],
     InstdAmt |-> InstdAmt(r),
     CdtrAgtBICFI |-> IF v = 1 THEN Strip(r.cells[10]) ELSE r.cells[10],
     CdtrNm |-> CdtrNm(v, r),
     PstlAdr |-> PstlAdr(r),
     CdtrIBAN |-> CdtrIBAN(r),
     Ustrd |-> Strip(r.cells[2]),
     Ref |-> RefVal(r)]

\* lines 81-105 / 203-227 when r[35] raises: the element is already in the
\* tree, with its children up to the empty CdtrAcct/Id
PartialTx(v, r) ==
    [TxElement(v, r) EXCEPT !.children = SubSeq(TxChildren, 1, 5),
                            !.CdtrIBAN = <<>>, !.Ustrd = <<>>, !.Ref = <<>>]

\* lines 118-120 / 240-242: the bytes written for the tree
Serialized(tree) == [kind |-> "bytes", declaration |-> "utf-8", doc |-> tree]

Unset == [kind |-> "unset", declaration |-> "", doc |-> NoTree]
None == [kind |-> "None", declaration |-> "", doc |-> NoTree]

NoError == [type |-> "none", at |-> "", row |-> 0]
Raised(type, at, row) == [type |-> type, at |-> at, row |-> row]

\* a fault of LoopDone: the loop left after its first turn
LoopDoneAfterFirst(i, ps) == i >= 1 \/ i = Len(ps)

\* line 80 / 202: the loop has run over every payment
LoopDone(i, ps) == i = Len(ps)

----------------------------------------------------------------------------
(* The script *)

Init ==
    /\ variant \in {1, 2}
    /\ uploaded = NoFile
    /\ pc = "idle"
    /\ rows = <<>>
    /\ hdr = NoHeaderFields
    /\ totals = NoTotals
    /\ root = NoTree
    /\ idx = 0
    /\ ret = Unset
    /\ error = NoError
    /\ ui = "uploader"
    /\ runs = 0
    /\ prev = [ret |-> Unset, error |-> NoError]

\* lines 125-127 / 247-249: a file is uploaded and the script calls
\* convert_csv_to_xml(uploaded.getvalue())
Upload ==
    /\ pc = "idle"
    /\ \E f \in Files : uploaded' = f
    /\ pc' = "parse"
    /\ UNCHANGED <<variant, rows, hdr, totals, root, idx, ret, error, ui, runs, prev>>

\* lines 16-21 / 144-150: decode, read the rows, drop the blank ones
Parse ==
    /\ pc = "parse"
    /\ IF ~uploaded.utf8
       THEN /\ error' = Raised("UnicodeDecodeError", "decode", 0)
            /\ pc' = "raised"
            /\ UNCHANGED <<rows, ret>>
       ELSE /\ rows' = NonBlankRows(uploaded.table)
            /\ error' = error
            /\ IF ReturnsNone(variant, rows')
               THEN ret' = None /\ pc' = "returned"
               ELSE ret' = ret /\ pc' = "header"
    /\ UNCHANGED <<variant, uploaded, hdr, totals, root, idx, ui, runs, prev>>

\* lines 23-28 / 152-157
Header ==
    /\ pc = "header"
    /\ IF HeaderRaises(rows[1])
       THEN /\ error' = Raised("IndexError", "header", 0)
            /\ pc' = "raised"
            /\ hdr' = hdr
       ELSE /\ hdr' = HeaderFields(variant, rows[1])
            /\ pc' = "totals"
            /\ error' = error
    /\ UNCHANGED <<variant, uploaded, rows, totals, root, idx, ret, ui, runs, prev>>

\* lines 30-33 / 159-162
Totals ==
    /\ pc = "totals"
    /\ LET ps == Payments(rows)
           bad == FirstBadAmount(ps, 1)
       IN  IF bad # 0
           THEN /\ error' = Raised(AmountError(ps[bad]), "totals", bad)
                /\ pc' = "raised"
                /\ totals' = totals
           ELSE /\ totals' = [ctrl_sum |-> CtrlSum(ps), nb_tx |-> NbTx(ps)]
                /\ pc' = "envelope"
                /\ error' = error
    /\ UNCHANGED <<variant, uploaded, rows, hdr, root, idx, ret, ui, runs, prev>>

\* lines 35-77 / 164-199
BuildEnvelope ==
    /\ pc = "envelope"
    /\ root' = Envelope(variant, hdr, totals)
    /\ idx' = 0
    /\ pc' = "transactions"
    /\ UNCHANGED <<variant, uploaded, rows, hdr, totals, ret, error, ui, runs, prev>>

\* lines 80-115 / 202-237: one turn of the loop
Transaction ==
    /\ pc = "transactions"
    /\ ~LoopDone(idx, Payments(rows))
    /\ LET r == Payments(rows)[idx + 1] IN
       IF TxRaises(r)
       THEN /\ root' = [root EXCEPT !.CdtTrfTxInf = Append(@, PartialTx(variant, r))]
            /\ error' = Raised("IndexError", "transaction", idx + 1)
            /\ pc' = "raised"
            /\ idx' = idx
       ELSE /\ root' = [root EXCEPT !.CdtTrfTxInf = Append(@, TxElement(variant, r))]
            /\ idx' = idx + 1
            /\ UNCHANGED <<error, pc>>
    /\ UNCHANGED <<variant, uploaded, rows, hdr, totals, ret, ui, runs, prev>>

\* lines 117-120 / 239-242
Serialize ==
    /\ pc = "transactions"
    /\ LoopDone(idx, Payments(rows))
    /\ ret' = Serialized(root)
    /\ pc' = "returned"
    /\ UNCHANGED <<variant, uploaded, rows, hdr, totals, root, idx, error, ui, runs, prev>>

\* lines 128-131 / 250-258: `if xml_bytes:` download button, else st.error;
\* an exception that left the function is shown by Streamlit instead
Show ==
    /\ pc \in {"returned", "raised"}
    /\ ui' = IF pc = "raised" THEN "exception"
             ELSE IF ret.kind = "bytes" THEN "download_button"
             ELSE "st.error"
    /\ runs' = runs + 1
    /\ pc' = "shown"
    /\ UNCHANGED <<variant, uploaded, rows, hdr, totals, root, idx, ret, error, prev>>

\* Streamlit runs the script again for the file the uploader still holds
\* (lines 125-127 / 247-249), with fresh locals
Rerun ==
    /\ pc = "shown"
    /\ runs < MaxRuns
    /\ prev' = [ret |-> ret, error |-> error]
    /\ rows' = <<>>
    /\ hdr' = NoHeaderFields
    /\ totals' = NoTotals
    /\ root' = NoTree
    /\ idx' = 0
    /\ ret' = Unset
    /\ error' = NoError
    /\ pc' = "parse"
    /\ UNCHANGED <<variant, uploaded, ui, runs>>

Next ==
    \/ Upload
    \/ Parse
    \/ Header
    \/ Totals
    \/ BuildEnvelope
    \/ Transaction
    \/ Serialize
    \/ Show
    \/ Rerun

Spec == Init /\ [][Next]_vars

----------------------------------------------------------------------------
(* Properties *)

ReturnedXml == ret.kind = "bytes"
Doc == ret.doc
Txs == ret.doc.CdtTrfTxInf

\* the decimal sum of the InstdAmt texts of a sequence of CdtTrfTxInf
SumOfInstdAmt(txs) == DecSum([k \in 1..Len(txs) |-> DecimalOf(txs[k].InstdAmt)])

\* C1: whenever convert_csv_to_xml returns XML, both NbOfTxs texts are the
\* number of CdtTrfTxInf elements of the output and both CtrlSum texts are
\* the decimal sum of the InstdAmt texts of the output, at 2 decimal places.
C1_CountAndSumMatchOutput ==
    ReturnedXml =>
        /\ Doc.GrpHdr.NbOfTxs = IntToStr(Len(Txs))
        /\ Doc.PmtInf.NbOfTxs = IntToStr(Len(Txs))
        /\ Doc.GrpHdr.CtrlSum = Format2F(SumOfInstdAmt(Txs))
        /\ Doc.PmtInf.CtrlSum = Format2F(SumOfInstdAmt(Txs))

\* C1 witness: XML with two transactions, one of whose amounts has three
\* fraction digits, so that the control sum is rounded.
C1_Witness ==
    /\ ReturnedXml
    /\ Len(Txs) = 2
    /\ \E k \in 1..2 : FractionDigits(Txs[k].InstdAmt) = 3

\* the rows the skip rule of the claim keeps: IBAN and amount cells present
\* and not empty
RECURSIVE C2_Retained(_)
C2_Retained(ps) ==
    IF ps = <<>> THEN <<>>
    ELSE LET r == Head(ps)
             keep == /\ HasCell(r, 35) /\ Strip(r.cells[35]) # <<>>
                     /\ HasCell(r, 13) /\ Strip(r.cells[13]) # <<>>
         IN  (IF keep THEN <<r>> ELSE <<>>) \o C2_Retained(Tail(ps))

\* C2: a payment row whose IBAN or amount cell is empty is dropped: returned
\* XML holds one CdtTrfTxInf per other row, in order, NbOfTxs counts only
\* those, and an empty amount cell never fails the conversion.
C2_EmptyRequiredCellDropsRow ==
    /\ ReturnedXml =>
          LET kept == C2_Retained(Payments(rows)) IN
          /\ Len(Txs) = Len(kept)
          /\ Doc.GrpHdr.NbOfTxs = IntToStr(Len(kept))
          /\ \A k \in 1..Len(Txs) : k <= Len(kept) => Txs[k].CdtrIBAN = CdtrIBAN(kept[k])
    /\ (error.at = "totals" /\ error.type = "InvalidOperation") =>
          Strip(Payments(rows)[error.row].cells[13]) # <<>>

\* the reference text of a row: column 34 when it has text, else column 2
C3_RefText(r) ==
    IF HasCell(r, 34) /\ Strip(r.cells[34]) # <<>> THEN Strip(r.cells[34])
    ELSE Strip(r.cells[2])

\* TRX-NNNNN for the 1-based ordinal k
C3_Placeholder(k) ==
    LET d == IntToStr(k) IN
    <<"T", "R", "X", "-">> \o [i \in 1..(5 - Len(d)) |-> "0"] \o d

\* C3: in returned XML the EndToEndId of the k-th row is its stripped
\* reference text when that is not empty, else TRX-NNNNN for k; it is never
\* empty.
C3_EndToEndIdFallback ==
    ReturnedXml =>
        \A k \in 1..Len(Txs) :
            LET ref == C3_RefText(Payments(rows)[k]) IN
            /\ Txs[k].EndToEndId = IF ref # <<>> THEN ref ELSE C3_Placeholder(k)
            /\ Txs[k].EndToEndId # <<>>

C4_Accepted == {<<"1", "2", "3", "4", ",", "5", "6">>, <<"1", " ", "2", "3", "4", ".", "5", "6">>, <<"1", "2", "3", "4", ".", "5", "6">>}

\* C4: the amount cells "1234,56", "1 234.56" and "1234.56" never raise and
\* all parse to 1234.56, and the cell "abc" is rejected.
C4_AmountParsing ==
    /\ (error.at = "totals" /\ error.type = "InvalidOperation") =>
          Payments(rows)[error.row].cells[13] \notin C4_Accepted
    /\ (pc = "envelope" /\ Len(Payments(rows)) = 1
            /\ Payments(rows)[1].cells[13] \in C4_Accepted) =>
          totals.ctrl_sum = [c |-> 123456, e |-> 2]
    /\ pc = "envelope" =>
          \A k \in 1..Len(Payments(rows)) : Payments(rows)[k].cells[13] # <<"a", "b", "c">>

\* C5: a call ends with complete XML (the envelope and one complete
\* CdtTrfTxInf for every payment) or with a failure (None or an exception);
\* after an exception nothing is returned, whatever the tree holds by then.
C5_CompleteXmlOrFailure ==
    /\ ReturnedXml =>
          /\ error = NoError
          /\ Doc = root
          /\ Doc.built
          /\ Len(Txs) = Len(Payments(rows))
          /\ \A k \in 1..Len(Txs) : Txs[k].children = TxChildren
    /\ error # NoError => ret = Unset
    /\ pc = "shown" =>
          \/ ReturnedXml /\ ui = "download_button"
          \/ ret = None /\ error = NoError /\ ui = "st.error"
          \/ ret = Unset /\ error # NoError /\ ui = "exception"

\* C5 witness: the second payment row is too short for the transaction
\* loop; the tree holds one complete and one partial CdtTrfTxInf and the
\* call has ended with the exception.
C5_Witness ==
    /\ pc = "shown"
    /\ error.at = "transaction"
    /\ error.row = 2
    /\ Len(root.CdtTrfTxInf) = 2
    /\ root.CdtTrfTxInf[2].children # TxChildren

\* C6: no returned XML has NbOfTxs = 0 and no CdtTrfTxInf; when no payment
\* remains the page shows a failure.
C6_EmptyBatchFails ==
    /\ ReturnedXml => (Len(Txs) > 0 /\ Doc.GrpHdr.NbOfTxs # <<"0">>)
    /\ (pc = "shown" /\ Payments(rows) = <<>>) => ui # "download_button"

\* C7: every InstdAmt text of returned XML is the parsed amount rendered
\* with exactly 2 fraction digits, as CtrlSum is, and CtrlSum is the
\* rendering of the sum of the unrounded amounts.
C7_InstdAmtTwoFractionDigits ==
    ReturnedXml =>
        /\ \A k \in 1..Len(Txs) :
              Txs[k].InstdAmt = Format2F(DecimalOf(AmountText(Payments(rows)[k])))
        /\ Doc.GrpHdr.CtrlSum = Format2F(CtrlSum(Payments(rows)))

\* C8: in returned XML every EndToEndId has at most 35 characters, every
\* creditor Nm at most 70, and the creditor IBAN is the whole IBAN cell
\* without its spaces.
C8_FieldLengths ==
    ReturnedXml =>
        \A k \in 1..Len(Txs) :
            /\ Len(Txs[k].EndToEndId) <= 35
            /\ Len(Txs[k].CdtrNm) <= 70
            /\ Txs[k].CdtrIBAN = Replace(Payments(rows)[k].cells[35], " ", <<>>)

\* C9: in returned XML the postal address of a transaction holds one
\* AdrLine, the stripped address parts joined by ", " or the one that is
\* not empty, and there is no PstlAdr element when both parts are empty.
C9_PostalAddress ==
    ReturnedXml =>
        \A k \in 1..Len(Txs) :
            LET a1 == Strip(Payments(rows)[k].cells[5])
                a2 == Strip(Payments(rows)[k].cells[6])
                adr == Txs[k].PstlAdr
            IN  /\ (a1 # <<>> /\ a2 # <<>>) =>
                      (adr.present /\ adr.AdrLine = <<a1 \o <<",", " ">> \o a2>>)
                /\ (a1 # <<>> /\ a2 = <<>>) => (adr.present /\ adr.AdrLine = <<a1>>)
                /\ (a1 = <<>> /\ a2 # <<>>) => (adr.present /\ adr.AdrLine = <<a2>>)
                /\ (a1 = <<>> /\ a2 = <<>>) => ~adr.present

\* C10: a second run of the script on the same uploaded bytes ends as the
\* run before it did: the same returned bytes or the same failure.
C10_SameInputSameOutcome ==
    (pc = "shown" /\ runs >= 2) =>
        /\ ret = prev.ret
        /\ error = prev.error

\* C10 witness: the second run on a file has returned XML with two
\* transactions.
C10_Witness ==
    /\ pc = "shown"
    /\ runs = 2
    /\ ReturnedXml
    /\ prev.ret.kind = "bytes"
    /\ Len(Txs) = 2

====
